---------------------------- MODULE Spec2Model ----------------------------
(***************************************************************************)
(* Model of calculate/bad_boy_stats.py (class BadBoyStats): the arrest     *)
(* scraper, the aggregator add_entry, the JSON snapshot and the lookup.    *)
(*                                                                         *)
(* Python strings that the code transforms (upper, capwords, f-strings)    *)
(* are sequences of one-character strings, so that the conversions are     *)
(* computed and not assumed.  Python's None is the value None below.       *)
(* A dict is a function; the empty dict is the function of empty domain.   *)
(***************************************************************************)
EXTENDS Integers, Sequences, FiniteSets, TLC

(***************************************************************************)
(* Bounds of the model.                                                    *)
(***************************************************************************)
MaxRuns == 2       \* runs of the program on one data directory
MaxPerPage == 1    \* records in one page of a response
MaxFetched == 2    \* records fetched in one run
MaxLookups == 2    \* lookups made on one object
MaxLen == 2        \* arrests aggregated in one run of SpecAgg
MaxHanded == 2     \* arrests handed to add_entry calls in SpecLookup

(***************************************************************************)
(* Strings.                                                                *)
(***************************************************************************)
LowerLetters == <<"a","b","c","d","e","f","g","h","i","j","k","l","m",
                  "n","o","p","q","r","s","t","u","v","w","x","y","z">>
UpperLetters == <<"A","B","C","D","E","F","G","H","I","J","K","L","M",
                  "N","O","P","Q","R","S","T","U","V","W","X","Y","Z">>

None == <<"<None>">>

UpperChar(c) ==
    IF \E i \in 1..26 : LowerLetters[i] = c
    THEN UpperLetters[CHOOSE i \in 1..26 : LowerLetters[i] = c]
    ELSE c

LowerChar(c) ==
    IF \E i \in 1..26 : UpperLetters[i] = c
    THEN LowerLetters[CHOOSE i \in 1..26 : UpperLetters[i] = c]
    ELSE c

\* str.upper
Upper(s) == [i \in 1..Len(s) |-> UpperChar(s[i])]

\* str.capitalize: first character upper-cased, the rest lower-cased
Capitalize(w) ==
    [i \in 1..Len(w) |-> IF i = 1 THEN UpperChar(w[i]) ELSE LowerChar(w[i])]

\* str.split(): the maximal runs of non-blank characters, in order
RECURSIVE SplitFrom(_, _, _)
SplitFrom(s, i, cur) ==
    IF i > Len(s)
    THEN IF cur = <<>> THEN <<>> ELSE <<cur>>
    ELSE IF s[i] = " "
         THEN (IF cur = <<>> THEN <<>> ELSE <<cur>>) \o SplitFrom(s, i + 1, <<>>)
         ELSE SplitFrom(s, i + 1, Append(cur, s[i]))

Split(s) == SplitFrom(s, 1, <<>>)

\* " ".join(words)
RECURSIVE JoinSp(_)
JoinSp(ws) ==
    IF ws = <<>> THEN <<>>
    ELSE IF Len(ws) = 1 THEN ws[1]
    ELSE ws[1] \o <<" ">> \o JoinSp(Tail(ws))

\* string.capwords(s) == " ".join(w.capitalize() for w in s.split())
Capwords(s) ==
    LET ws == Split(s) IN JoinSp([i \in 1..Len(ws) |-> Capitalize(ws[i])])

\* str.strip() for blanks
RECURSIVE LStrip(_)
LStrip(s) == IF s # <<>> /\ Head(s) = " " THEN LStrip(Tail(s)) ELSE s

RECURSIVE RStrip(_)
RStrip(s) ==
    IF s # <<>> /\ s[Len(s)] = " " THEN RStrip(SubSeq(s, 1, Len(s) - 1)) ELSE s

Strip(s) == LStrip(RStrip(s))

(***************************************************************************)
(* Dicts and lists.                                                        *)
(***************************************************************************)
EmptyDict == [k \in {} |-> None]

\* d[k] = v
Put(d, k, v) == [x \in (DOMAIN d) \cup {k} |-> IF x = k THEN v ELSE d[x]]

\* dict.get(k, default)
Get(d, k, default) == IF k \in DOMAIN d THEN d[k] ELSE default

Range(s) == {s[i] : i \in 1..Len(s)}

\* a list(set(xs)) that drops no duplicate
ListOfSetKeepsDuplicates(xs, order) == xs

\* list(set(xs)): the distinct elements of xs, in the iteration order of the
\* set, which the language leaves to the hash of the strings.  order lists
\* the candidate elements in that iteration order.
ListOfSet(xs, order) == SelectSeq(order, LAMBDA n : n \in Range(xs))

RECURSIVE Perms(_)
Perms(S) ==
    IF S = {} THEN {<<>>}
    ELSE UNION {{<<x>> \o p : p \in Perms(S \ {x})} : x \in S}

(***************************************************************************)
(* Program constants.                                                      *)
(***************************************************************************)
DST == <<"D","/","S","T">>
DisabledKey == <<"T","E","M","P","O","R","A","R","Y"," ","D","I","S","A","B","L","I","N","G"," ","O","F"," ","T","E","A","M"," ","D","E","F","E","N","S","E","S"," ","I","N"," ","B","A","D"," ","B","O","Y"," ","P","O","I","N","T","S">>
FreeAgentLower == <<"F","r","e","e"," ","a","g","e","n","t">>
FreeAgentUpper == <<"F","r","e","e"," ","A","g","e","n","t">>
FA == <<"F","A">>
Unknown == <<"?">>

DefensePositions ==
    {<<"C">>,
     <<"C","B">>,
     <<"D","B">>,
     <<"D","E">>,
     <<"D","E","/","D","T">>,
     <<"D","T">>,
     <<"L","B">>,
     <<"S">>,
     <<"S","a","f","e","t","y">>}
OffensePositions ==
    {<<"F","B">>,
     <<"Q","B">>,
     <<"R","B">>,
     <<"T","E">>,
     <<"W","R">>}
SpecialPositions ==
    {<<"K">>,
     <<"P">>}
LinePositions ==
    {<<"O","G">>,
     <<"O","L">>,
     <<"O","T">>}
CoachPositions ==
    {<<"O","C">>}

\* self.position_types
position_types ==
    [p \in DefensePositions \cup OffensePositions \cup SpecialPositions
           \cup LinePositions \cup CoachPositions |->
        IF p \in DefensePositions THEN "D"
        ELSE IF p \in OffensePositions THEN "O"
        ELSE IF p \in SpecialPositions THEN "S"
        ELSE IF p \in LinePositions THEN "L"
        ELSE "C"]

DUI == <<"D","U","I">>
ASSAULT == <<"A","S","S","A","U","L","T">>
DRUGS == <<"D","R","U","G","S">>
JAYWALKING == <<"J","A","Y","W","A","L","K","I","N","G">>

\* self.crime_rankings: resources/files/crime_categories.json, upper-case
\* category -> non-negative score (the table of the specification's scenario,
\* with a second category of equal score)
crime_rankings ==
    [c \in {DUI, ASSAULT, DRUGS} |-> IF c = ASSAULT THEN 10 ELSE 5]

ARI == <<"A","R","I">>
JAX == <<"J","A","X">>
JAC == <<"J","A","C">>

\* utilities.constants.nfl_team_abbreviations, in iteration order
nfl_team_abbreviations == <<ARI, JAX>>

\* utilities.constants.nfl_team_abbreviation_conversions
nfl_team_abbreviation_conversions == [t \in {JAC} |-> JAX]


(***************************************************************************)
(* add_entry.  self is the record of the three dicts the method mutates:   *)
(* bad_boy_data, raw_bad_boy_data, unique_crime_categories_for_output.     *)
(* An arrest is the normalised record built by the scraper; its date,      *)
(* case, description and outcome are carried but never read, and are left  *)
(* out.                                                                    *)
(***************************************************************************)
new_nfl_team ==
    [pos |-> DST, players |-> EmptyDict, total_points |-> 0,
     offenders |-> <<>>, num_offenders |-> 0,
     worst_offense |-> None, worst_offense_points |-> 0]

\* the points of a category: the table's, or 0 for a category not in it
offense_points_of(offense_category) ==
    IF offense_category \in DOMAIN crime_rankings
    THEN crime_rankings[offense_category]
    ELSE 0

\* a player entry whose worst offense is set by an offense of 0 points too
nfl_player_of_zero_is_worst(team_abbr, player_arrest) ==
    LET offense_category == Upper(player_arrest.crime)
        offense_points == offense_points_of(offense_category)
    IN  [team |-> team_abbr, pos |-> player_arrest.position,
         offenses |-> <<[c \in {offense_category} |-> offense_points]>>,
         total_points |-> offense_points,
         worst_offense |-> offense_category,
         worst_offense_points |-> offense_points]

\* a player entry whose total_points misses the offense appended
nfl_player_of_total_not_added(team_abbr, player_arrest) ==
    LET offense_category == Upper(player_arrest.crime)
        offense_points == offense_points_of(offense_category)
    IN  [team |-> team_abbr, pos |-> player_arrest.position,
         offenses |-> <<[c \in {offense_category} |-> offense_points]>>,
         total_points |-> 0,
         worst_offense |-> IF offense_points > 0 THEN offense_category ELSE None,
         worst_offense_points |-> offense_points]

\* the player entry one loop iteration builds: a fresh record holding the
\* single offense of this arrest
nfl_player_of(team_abbr, player_arrest) ==
    LET offense_category == Upper(player_arrest.crime)
        offense_points == offense_points_of(offense_category)
        fresh == [team |-> team_abbr, pos |-> player_arrest.position,
                  offenses |-> <<>>, total_points |-> 0,
                  worst_offense |-> None, worst_offense_points |-> 0]
        worse == offense_points > fresh.worst_offense_points
    IN  [fresh EXCEPT
           !.offenses = Append(@, [c \in {offense_category} |-> offense_points]),
           !.total_points = @ + offense_points,
           !.worst_offense = IF worse THEN offense_category ELSE @,
           !.worst_offense_points = IF worse THEN offense_points ELSE @]

\* a roll-up that appends the name to offenders without removing duplicates
nfl_team_update_offenders_appended(nfl_team, player_name, nfl_player, offense_category, offense_points, order) ==
    LET offenders == Append(nfl_team.offenders, player_name)
        worse == offense_points > nfl_team.worst_offense_points
    IN  [nfl_team EXCEPT
           !.players = Put(@, player_name, nfl_player),
           !.total_points = @ + offense_points,
           !.offenders = offenders,
           !.num_offenders = Len(offenders),
           !.worst_offense = IF worse THEN offense_category ELSE @,
           !.worst_offense_points = IF worse THEN offense_points ELSE @]

\* a roll-up whose worst offense is replaced by an offense of equal points
nfl_team_update_tie_replaces(nfl_team, player_name, nfl_player, offense_category, offense_points, order) ==
    LET offenders == ListOfSet(Append(nfl_team.offenders, player_name), order)
        worse == offense_points >= nfl_team.worst_offense_points
    IN  [nfl_team EXCEPT
           !.players = Put(@, player_name, nfl_player),
           !.total_points = @ + offense_points,
           !.offenders = offenders,
           !.num_offenders = Len(offenders),
           !.worst_offense = IF worse THEN offense_category ELSE @,
           !.worst_offense_points = IF worse THEN offense_points ELSE @]

\* a roll-up whose worst_offense_points is the points of the last arrest
nfl_team_update_last_is_worst(nfl_team, player_name, nfl_player, offense_category, offense_points, order) ==
    LET offenders == ListOfSet(Append(nfl_team.offenders, player_name), order)
    IN  [nfl_team EXCEPT
           !.players = Put(@, player_name, nfl_player),
           !.total_points = @ + offense_points,
           !.offenders = offenders,
           !.num_offenders = Len(offenders),
           !.worst_offense = offense_category,
           !.worst_offense_points = offense_points]

\* the team roll-up of one loop iteration (the branch position_type = "D")
nfl_team_update(nfl_team, player_name, nfl_player, offense_category, offense_points, order) ==
    LET offenders == ListOfSet(Append(nfl_team.offenders, player_name), order)
        worse == offense_points > nfl_team.worst_offense_points
    IN  [nfl_team EXCEPT
           !.players = Put(@, player_name, nfl_player),
           !.total_points = @ + offense_points,
           !.offenders = offenders,
           !.num_offenders = Len(offenders),
           !.worst_offense = IF worse THEN offense_category ELSE @,
           !.worst_offense_points = IF worse THEN offense_points ELSE @]

\* an iteration that rolls every arrest up to the team, whatever its
\* position type
add_entry_step_all_positions(acc, team_abbr, player_arrest, order) ==
    LET self == acc.self
        player_name == player_arrest.name
        offense_category == Upper(player_arrest.crime)
        offense_points == offense_points_of(offense_category)
        nfl_player == nfl_player_of(team_abbr, player_arrest)
        self1 ==
            [bad_boy_data |-> Put(self.bad_boy_data, player_name, nfl_player),
             raw_bad_boy_data |->
                 Put(self.raw_bad_boy_data, player_name, player_arrest),
             unique_crime_categories_for_output |->
                 Put(self.unique_crime_categories_for_output, offense_category,
                     Get(crime_rankings, offense_category, 0))]
    IN  [self |-> self1,
         nfl_team |-> nfl_team_update(acc.nfl_team, player_name,
                                      self1.bad_boy_data[player_name],
                                      offense_category, offense_points, order)]

\* one iteration of the loop over arrests; acc = [self, nfl_team]
add_entry_step(acc, team_abbr, player_arrest, order) ==
    LET self == acc.self
        player_name == player_arrest.name
        offense_category == Upper(player_arrest.crime)
        offense_points == offense_points_of(offense_category)
        nfl_player == nfl_player_of(team_abbr, player_arrest)
        self1 ==
            [bad_boy_data |-> Put(self.bad_boy_data, player_name, nfl_player),
             raw_bad_boy_data |->
                 Put(self.raw_bad_boy_data, player_name, player_arrest),
             unique_crime_categories_for_output |->
                 Put(self.unique_crime_categories_for_output, offense_category,
                     Get(crime_rankings, offense_category, 0))]
    IN  [self |-> self1,
         nfl_team |->
             IF player_arrest.position_type = "D"
             THEN nfl_team_update(acc.nfl_team, player_name,
                                  self1.bad_boy_data[player_name],
                                  offense_category, offense_points, order)
             ELSE acc.nfl_team]

RECURSIVE add_entry_loop(_, _, _, _)
add_entry_loop(acc, team_abbr, arrests, order) ==
    IF arrests = <<>> THEN acc
    ELSE add_entry_loop(add_entry_step(acc, team_abbr, Head(arrests), order),
                        team_abbr, Tail(arrests), order)

\* an add_entry that stores a team entry for an empty list too
add_entry_without_guard(self, team_abbr, arrests, order) ==
    LET acc == add_entry_loop([self |-> self, nfl_team |-> new_nfl_team],
                              team_abbr, arrests, order)
    IN  [acc.self EXCEPT !.bad_boy_data = Put(@, team_abbr, acc.nfl_team)]

\* add_entry(team_abbr, arrests); an absent list (None) is the empty list
add_entry(self, team_abbr, arrests, order) ==
    IF arrests = <<>> THEN self
    ELSE LET acc == add_entry_loop([self |-> self, nfl_team |-> new_nfl_team],
                                   team_abbr, arrests, order)
         IN  [acc.self EXCEPT
                !.bad_boy_data = Put(@, team_abbr, acc.nfl_team)]


(***************************************************************************)
(* The lookup.                                                             *)
(***************************************************************************)
\* Python truth value of an optional string: None and "" are false
Truthy(x) == x # None /\ x # <<>>

\* a team resolution without the alias table
player_team_of_no_alias(player_team_abbr) ==
    IF Truthy(player_team_abbr) THEN Upper(player_team_abbr) ELSE Unknown

\* lines 293-296: upper-case, then the alias table for a code that is not a
\* known abbreviation
player_team_of(player_team_abbr) ==
    LET player_team ==
            IF Truthy(player_team_abbr) THEN Upper(player_team_abbr) ELSE Unknown
    IN  IF player_team \notin Range(nfl_team_abbreviations)
           /\ player_team \in DOMAIN nfl_team_abbreviation_conversions
        THEN nfl_team_abbreviation_conversions[player_team]
        ELSE player_team

\* lines 298-307: the key the lookup uses
player_full_name_of(player_first_name, player_last_name, player_pos) ==
    IF player_pos = DST
    THEN DisabledKey
    ELSE Strip((IF Truthy(player_first_name)
                THEN Capwords(player_first_name) ELSE <<>>)
               \o (IF Truthy(player_first_name) /\ Truthy(player_last_name)
                   THEN <<" ">> ELSE <<>>)
               \o (IF Truthy(player_last_name)
                   THEN Capwords(player_last_name) ELSE <<>>))

\* the entry synthesized on a miss (lines 316-323)
zero_entry(player_team, player_pos) ==
    [team |-> player_team, pos |-> player_pos, offenses |-> <<>>,
     total_points |-> 0, worst_offense |-> None, worst_offense_points |-> 0]

\* a lookup that returns the zero-valued entry on a miss without storing it
get_player_bad_boy_stats_no_insert(store, player_first_name, player_last_name, player_team_abbr, player_pos) ==
    LET player_full_name ==
            player_full_name_of(player_first_name, player_last_name, player_pos)
    IN  IF player_full_name \in DOMAIN store
        THEN [bad_boy_data |-> store, entry |-> store[player_full_name]]
        ELSE [bad_boy_data |-> store,
              entry |-> zero_entry(player_team_of(player_team_abbr), player_pos)]

\* a lookup whose team-defense key is the team abbreviation (line 306)
get_player_bad_boy_stats_team_key(store, player_first_name, player_last_name, player_team_abbr, player_pos) ==
    LET player_team == player_team_of(player_team_abbr)
        player_full_name ==
            IF player_pos = DST THEN player_team
            ELSE player_full_name_of(player_first_name, player_last_name, player_pos)
    IN  IF player_full_name \in DOMAIN store
        THEN [bad_boy_data |-> store, entry |-> store[player_full_name]]
        ELSE LET stored == Put(store, player_full_name,
                               zero_entry(player_team, player_pos))
             IN  [bad_boy_data |-> stored, entry |-> stored[player_full_name]]

\* a lookup that records the team and the position of the call on a hit too
get_player_bad_boy_stats_updates_on_hit(store, player_first_name, player_last_name, player_team_abbr, player_pos) ==
    LET player_team == player_team_of(player_team_abbr)
        player_full_name ==
            player_full_name_of(player_first_name, player_last_name, player_pos)
        stored ==
            IF player_full_name \in DOMAIN store
            THEN Put(store, player_full_name,
                     [store[player_full_name] EXCEPT !.team = player_team,
                                                     !.pos = player_pos])
            ELSE Put(store, player_full_name, zero_entry(player_team, player_pos))
    IN  [bad_boy_data |-> stored, entry |-> stored[player_full_name]]

\* get_player_bad_boy_stats with key_str = "": the store after the call and
\* the entry returned
get_player_bad_boy_stats(store, player_first_name, player_last_name, player_team_abbr, player_pos) ==
    LET player_team == player_team_of(player_team_abbr)
        player_full_name ==
            player_full_name_of(player_first_name, player_last_name, player_pos)
    IN  IF player_full_name \in DOMAIN store
        THEN [bad_boy_data |-> store,
              entry |-> store[player_full_name]]
        ELSE LET stored == Put(store, player_full_name,
                               zero_entry(player_team, player_pos))
             IN  [bad_boy_data |-> stored, entry |-> stored[player_full_name]]

\* values a wrapper returns: an int or None
PyInt(n) == [type |-> "int", value |-> n]
PyNone == [type |-> "NoneType"]

\* get_player_bad_boy_num_offenders: the value returned for the entry the
\* lookup gave (lines 340-343); dict.get gives None for a missing key
num_offenders_of(player_bad_boy_stats) ==
    IF player_bad_boy_stats.pos = DST
    THEN IF "num_offenders" \in DOMAIN player_bad_boy_stats
         THEN PyInt(player_bad_boy_stats.num_offenders)
         ELSE PyNone
    ELSE PyInt(0)


(***************************************************************************)
(* The snapshot files.  A file holds a JSON document, modelled as the tree *)
(* of JSON values that json.dump writes and json.load reads: null, number, *)
(* string, array, object.  json.dump maps None to null, an int to a        *)
(* number, a str to a string, a list to an array and a dict to an object   *)
(* whose keys are strings; json.load maps them back.                       *)
(***************************************************************************)
Absent == [j |-> "absent"]
JNull == [j |-> "null"]
JNum(n) == [j |-> "number", v |-> n]
JStr(x) == [j |-> "string", v |-> x]
JArr(xs) == [j |-> "array", v |-> xs]
JObj(d) == [j |-> "object", v |-> d]

\* a value that is None or a str
dump_opt_str(x) == IF x = None THEN JNull ELSE JStr(x)

\* one element of offenses: the dict {category: points}
dump_offense(o) == JObj([c \in DOMAIN o |-> JNum(o[c])])

dump_player(e) ==
    JObj([team |-> dump_opt_str(e.team),
          pos |-> dump_opt_str(e.pos),
          offenses |-> JArr([i \in 1..Len(e.offenses) |-> dump_offense(e.offenses[i])]),
          total_points |-> JNum(e.total_points),
          worst_offense |-> dump_opt_str(e.worst_offense),
          worst_offense_points |-> JNum(e.worst_offense_points)])

dump_team(e) ==
    JObj([pos |-> dump_opt_str(e.pos),
          players |-> JObj([n \in DOMAIN e.players |-> dump_player(e.players[n])]),
          total_points |-> JNum(e.total_points),
          offenders |-> JArr([i \in 1..Len(e.offenders) |-> JStr(e.offenders[i])]),
          num_offenders |-> JNum(e.num_offenders),
          worst_offense |-> dump_opt_str(e.worst_offense),
          worst_offense_points |-> JNum(e.worst_offense_points)])

\* json.dump(self.bad_boy_data, ...)
dump_bad_boy_data(d) ==
    JObj([k \in DOMAIN d |->
            IF "players" \in DOMAIN d[k] THEN dump_team(d[k]) ELSE dump_player(d[k])])

\* json.dump(self.raw_bad_boy_data, ...)
dump_raw_bad_boy_data(d) ==
    JObj([k \in DOMAIN d |->
            JObj([name |-> JStr(d[k].name), team |-> JStr(d[k].team),
                  position |-> JStr(d[k].position),
                  position_type |-> JStr(d[k].position_type),
                  crime |-> JStr(d[k].crime)])])

\* json.load
RECURSIVE json_load(_)
json_load(doc) ==
    CASE doc.j = "null" -> None
      [] doc.j = "number" -> doc.v
      [] doc.j = "string" -> doc.v
      [] doc.j = "array" -> [i \in 1..Len(doc.v) |-> json_load(doc.v[i])]
      [] doc.j = "object" -> [k \in DOMAIN doc.v |-> json_load(doc.v[k])]

\* a load that reads nothing
open_bad_boy_data_reads_nothing(bad_boy_data, files) == bad_boy_data

\* open_bad_boy_data: the store after the call
open_bad_boy_data(bad_boy_data, files) ==
    IF files.bad_boy_data # Absent
    THEN json_load(files.bad_boy_data)
    ELSE bad_boy_data

\* a load that does not look at the refresh flag
opened_store_whatever_refresh(ref, files) == open_bad_boy_data(EmptyDict, files)

\* lines 64-66: the store after the conditional load of the snapshot
opened_store(ref, files) ==
    IF ~ref THEN open_bad_boy_data(EmptyDict, files) ELSE EmptyDict

\* a save that does not look at the persist flag
save_bad_boy_data_whatever_flag(self, persist, files) ==
    [bad_boy_data |-> dump_bad_boy_data(self.bad_boy_data),
     raw_bad_boy_data |-> dump_raw_bad_boy_data(self.raw_bad_boy_data)]

\* a save that writes the raw records to both files
save_bad_boy_data_raw_to_both(self, persist, files) ==
    IF persist
    THEN [bad_boy_data |-> dump_raw_bad_boy_data(self.raw_bad_boy_data),
          raw_bad_boy_data |-> dump_raw_bad_boy_data(self.raw_bad_boy_data)]
    ELSE files

\* save_bad_boy_data: the files after the call
save_bad_boy_data(self, persist, files) ==
    IF persist
    THEN [bad_boy_data |-> dump_bad_boy_data(self.bad_boy_data),
          raw_bad_boy_data |-> dump_raw_bad_boy_data(self.raw_bad_boy_data)]
    ELSE files


(***************************************************************************)
(* The scraper's inputs: the records the arrest database returns.          *)
(***************************************************************************)
PageSize == 20

Al == <<"A","l">>
AJ == <<"A","J">>
Roe == <<"R","o","e">>
LB == <<"L","B">>
QB == <<"Q","B">>
XX == <<"X","X">>
AssaultMixed == <<"A","s","s","a","u","l","t">>

\* the entry of arrests built from one record of a response (lines 112-126);
\* defined for a record whose Position is in position_types
arrest_of(arrest) ==
    [name |-> arrest.First_name \o <<" ">> \o arrest.Last_name,
     team |-> IF arrest.Team = FreeAgentLower \/ arrest.Team = FreeAgentUpper
              THEN FA ELSE arrest.Team,
     position |-> arrest.Position,
     position_type |-> position_types[arrest.Position],
     crime |-> Upper(arrest.Category)]

\* a normalisation that gives a record of an unknown position the type "?"
normalised_defaulting(result) ==
    [ok |-> TRUE,
     arrests |->
        [i \in 1..Len(result) |->
            IF result[i].Position \in DOMAIN position_types
            THEN arrest_of(result[i])
            ELSE [name |-> result[i].First_name \o <<" ">> \o result[i].Last_name,
                  team |-> result[i].Team,
                  position |-> result[i].Position,
                  position_type |-> "?",
                  crime |-> Upper(result[i].Category)]]]

\* lines 111-126 and 154-169: the records of a page, normalised; the lookup
\* of a position the table does not hold is a KeyError
normalised(result) ==
    IF \E i \in 1..Len(result) : result[i].Position \notin DOMAIN position_types
    THEN [ok |-> FALSE, arrests |-> <<>>]
    ELSE [ok |-> TRUE, arrests |-> [i \in 1..Len(result) |-> arrest_of(result[i])]]

\* the records a page of the query for team may hold
PageRecords(team) ==
    [First_name : {Al}, Last_name : {Roe}, Team : {team, FreeAgentLower},
     Position : {LB, XX}, Category : {AssaultMixed}]

\* the Result lists of a response: at most MaxPerPage records
RECURSIVE SeqsUpTo(_, _)
SeqsUpTo(S, n) ==
    IF n = 0 THEN {<<>>}
    ELSE LET shorter == SeqsUpTo(S, n - 1)
         IN  shorter \cup {Append(q, x) : q \in {r \in shorter : Len(r) = n - 1}, x \in S}

\* the totalResults a response may report
TotalChoices == {0, PageSize, PageSize + 1, 2 * PageSize + 1}

\* a page count that drops the last, partly filled page
num_pages_of_full_pages_only(total_results) ==
    IF total_results > PageSize THEN total_results \div PageSize ELSE 1

\* lines 131-137: the number of pages requested for a team
num_pages_of(total_results) ==
    IF total_results > PageSize
    THEN IF total_results % PageSize > 0
         THEN (total_results \div PageSize) + 1
         ELSE total_results \div PageSize
    ELSE 1

\* arrests_by_team.get(team_abbr) (lines 171-176): the arrests of the team,
\* in the order fetched (sorted is stable); no arrest gives the empty list
arrests_by_team(all_arrests, team_abbr) ==
    SelectSeq(all_arrests, LAMBDA a : a.team = team_abbr)

\* the names a list of arrests carries
NamesOf(arrest_list) == {arrest_list[i].name : i \in 1..Len(arrest_list)}


(***************************************************************************)
(* State.                                                                  *)
(***************************************************************************)
VARIABLES
    save_data, offline, refresh,          \* the flags of the object
    bad_boy_data,                         \* the store
    raw_bad_boy_data,                     \* name -> last arrest seen
    unique_crime_categories_for_output,   \* category -> score, for export
    files,                                \* the two snapshot files on disk
    pc,                                   \* where the run is
    err,                                  \* the exception __init__ raised
    arrests, team_idx, page_num, num_pages,   \* locals of __init__
    total_results,                        \* totalResults of the team's page 1
    gets, posts,                          \* requests issued in this run
    runs, lookups, handed,                \* counters that bound the model
    last                                  \* the last call and its result

self_vars == <<bad_boy_data, raw_bad_boy_data, unique_crime_categories_for_output>>
flag_vars == <<save_data, offline, refresh>>
local_vars == <<arrests, team_idx, page_num, num_pages, total_results>>
net_vars == <<gets, posts>>
vars == <<save_data, offline, refresh, bad_boy_data, raw_bad_boy_data,
          unique_crime_categories_for_output, files, pc, err, arrests,
          team_idx, page_num, num_pages, total_results, gets, posts, runs,
          lookups, handed, last>>

\* the three dicts as the record the operators take
Self ==
    [bad_boy_data |-> bad_boy_data,
     raw_bad_boy_data |-> raw_bad_boy_data,
     unique_crime_categories_for_output |-> unique_crime_categories_for_output]

SetSelf(self) ==
    /\ bad_boy_data' = self.bad_boy_data
    /\ raw_bad_boy_data' = self.raw_bad_boy_data
    /\ unique_crime_categories_for_output' = self.unique_crime_categories_for_output

NoFiles == [bad_boy_data |-> Absent, raw_bad_boy_data |-> Absent]

ClearLocals ==
    /\ arrests' = <<>>
    /\ team_idx' = 0
    /\ page_num' = 0
    /\ num_pages' = 0
    /\ total_results' = 0

\* a failed request after which the arrests fetched so far are aggregated
Raise_and_salvage(e) ==
    /\ pc' = "aggregate"
    /\ err' = e
    /\ arrests' = arrests /\ team_idx' = 1 /\ page_num' = 0 /\ num_pages' = 0
    /\ total_results' = total_results
    /\ last' = [op |-> "raise", fetched |-> Len(arrests),
                snapshot |-> files.bad_boy_data]

\* an exception leaves __init__; last keeps how many arrests had been fetched
Raise(e) ==
    /\ pc' = "raised"
    /\ err' = e
    /\ ClearLocals
    /\ last' = [op |-> "raise", fetched |-> Len(arrests),
                snapshot |-> files.bad_boy_data]

(***************************************************************************)
(* A run of the program: __init__ (lines 24-196), then lookups.            *)
(***************************************************************************)
Init ==
    /\ save_data = FALSE /\ offline = FALSE /\ refresh = FALSE
    /\ bad_boy_data = EmptyDict
    /\ raw_bad_boy_data = EmptyDict
    /\ unique_crime_categories_for_output = EmptyDict
    /\ files = NoFiles
    /\ pc = "new"
    /\ err = "none"
    /\ arrests = <<>> /\ team_idx = 0 /\ page_num = 0 /\ num_pages = 0
    /\ total_results = 0
    /\ gets = 0 /\ posts = 0
    /\ runs = 0 /\ lookups = 0 /\ handed = 0
    /\ last = [op |-> "none"]

\* an online run that scrapes whatever the load has given
after_open_always_scrapes(store, off, ref) ==
    IF ref \/ ~off
    THEN "nonce"
    ELSE IF store = EmptyDict THEN "raised" ELSE "ready"

\* an offline run that goes on without a store
after_open_never_raises(store, off, ref) ==
    IF ref \/ ~off
    THEN IF store = EmptyDict THEN "nonce" ELSE "ready"
    ELSE "ready"

\* where __init__ goes once the flags are set and the snapshot is opened
\* (lines 69-70 and 184-189)
after_open(store, off, ref) ==
    IF ref \/ ~off
    THEN IF store = EmptyDict THEN "nonce" ELSE "ready"
    ELSE IF store = EmptyDict THEN "raised" ELSE "ready"

\* lines 29-70, 184-189: a new object on the data directory
Construct(sd, off, ref) ==
    /\ pc \in {"new", "ready", "raised"}
    /\ runs < MaxRuns
    /\ runs' = runs + 1
    /\ save_data' = sd /\ offline' = off /\ refresh' = ref
    /\ raw_bad_boy_data' = EmptyDict
    /\ unique_crime_categories_for_output' = EmptyDict
    /\ bad_boy_data' = opened_store(ref, files)
    /\ pc' = after_open(bad_boy_data', off, ref)
    /\ err' = IF pc' = "raised" THEN "FileNotFoundError" ELSE "none"
    /\ ClearLocals
    /\ gets' = 0 /\ posts' = 0 /\ lookups' = 0 /\ handed' = 0
    /\ last' = [op |-> "__init__", snapshot |-> files.bad_boy_data]
    /\ UNCHANGED files

\* lines 73-77: the GET of the page that carries the nonce
GetNonce ==
    /\ pc = "nonce"
    /\ gets' = gets + 1
    /\ \/ /\ pc' = "page"
          /\ err' = err /\ last' = last
          /\ arrests' = <<>> /\ team_idx' = 1 /\ page_num' = 1 /\ num_pages' = 0
          /\ total_results' = 0
       \/ Raise("RequestException")
    /\ UNCHANGED <<flag_vars, self_vars, files, posts, runs, lookups, handed>>

\* a scrape that starts the aggregation after the pages of one team
NextPage_one_team_only(np) ==
    IF page_num < np
    THEN /\ pc' = "page" /\ team_idx' = team_idx
         /\ page_num' = page_num + 1 /\ num_pages' = np
    ELSE /\ pc' = "aggregate" /\ team_idx' = 1
         /\ page_num' = 0 /\ num_pages' = 0

\* the position after a page of team_idx was read without error
NextPage(np) ==
    IF page_num < np
    THEN /\ pc' = "page" /\ team_idx' = team_idx
         /\ page_num' = page_num + 1 /\ num_pages' = np
    ELSE IF team_idx < Len(nfl_team_abbreviations)
    THEN /\ pc' = "page" /\ team_idx' = team_idx + 1
         /\ page_num' = 1 /\ num_pages' = 0
    ELSE /\ pc' = "aggregate" /\ team_idx' = 1
         /\ page_num' = 0 /\ num_pages' = 0

\* lines 96-169: one POST, for page page_num of team team_idx, and the
\* normalisation of its records
PostPage ==
    /\ pc = "page"
    /\ posts' = posts + 1
    /\ \/ Raise("RequestException")
       \/ \E result \in SeqsUpTo(PageRecords(nfl_team_abbreviations[team_idx]),
                                 IF MaxFetched - Len(arrests) < MaxPerPage
                                 THEN MaxFetched - Len(arrests) ELSE MaxPerPage),
             reported \in IF page_num = 1 THEN TotalChoices ELSE {0} :
            IF ~normalised(result).ok
            THEN Raise("KeyError")
            ELSE /\ arrests' = arrests \o normalised(result).arrests
                 /\ total_results' = IF page_num = 1 THEN reported
                                      ELSE total_results
                 /\ NextPage(IF page_num = 1 THEN num_pages_of(reported)
                             ELSE num_pages)
                 /\ err' = err /\ last' = last
    /\ UNCHANGED <<flag_vars, self_vars, files, gets, runs, lookups, handed>>

\* lines 178-179: add_entry for team team_idx
AddEntries ==
    /\ pc = "aggregate"
    /\ LET team_abbr == nfl_team_abbreviations[team_idx]
           team_arrests == arrests_by_team(arrests, team_abbr)
       IN  \E order \in Perms(NamesOf(team_arrests)) :
             /\ SetSelf(add_entry(Self, team_abbr, team_arrests, order))
             /\ last' = [op |-> "add_entry", team_abbr |-> team_abbr,
                         arrests |-> team_arrests, pre |-> Self]
    /\ IF team_idx < Len(nfl_team_abbreviations)
       THEN /\ team_idx' = team_idx + 1 /\ pc' = pc
       ELSE /\ team_idx' = 0 /\ pc' = "save"
    /\ UNCHANGED <<flag_vars, files, err, arrests, page_num, num_pages,
                   total_results, net_vars,
                   runs, lookups, handed>>

\* line 181, then the end of __init__
Save ==
    /\ pc = "save"
    /\ files' = save_bad_boy_data(Self, save_data, files)
    /\ pc' = "ready"
    /\ ClearLocals
    /\ last' = [op |-> "save", snapshot |-> files.bad_boy_data]
    /\ UNCHANGED <<flag_vars, self_vars, err, net_vars, runs, lookups, handed>>

\* get_player_bad_boy_stats and the wrappers over it
Lookup(first, last_name, team, pos) ==
    /\ pc = "ready"
    /\ lookups < MaxLookups
    /\ lookups' = lookups + 1
    /\ LET got == get_player_bad_boy_stats(bad_boy_data, first, last_name, team, pos)
       IN  /\ bad_boy_data' = got.bad_boy_data
           /\ last' = [op |-> "lookup", first |-> first, last_name |-> last_name,
                       team |-> team, pos |-> pos,
                       hit |-> (player_full_name_of(first, last_name, pos)
                                  \in DOMAIN bad_boy_data),
                       entry |-> got.entry,
                       num_offenders |-> num_offenders_of(got.entry)]
    /\ UNCHANGED <<flag_vars, raw_bad_boy_data, unique_crime_categories_for_output,
                   files, pc, err, local_vars, net_vars, runs, handed>>

\* the arguments of the lookups of a run
RunFirstNames == {<<"a","l">>}
RunLastNames == {<<"r","o","e">>}
RunTeams == {<<"a","r","i">>, None}
RunPositions == {QB, DST}

Next ==
    \/ \E sd \in BOOLEAN, off \in BOOLEAN, ref \in BOOLEAN : Construct(sd, off, ref)
    \/ GetNonce
    \/ PostPage
    \/ AddEntries
    \/ Save
    \/ \E f \in RunFirstNames, l \in RunLastNames, t \in RunTeams,
          p \in RunPositions : Lookup(f, l, t, p)

Spec == Init /\ [][Next]_vars

(***************************************************************************)
(* SpecAgg: the aggregation of a run (lines 171-181) over every list of    *)
(* arrests the fetch may have gathered, from a wider set of records.       *)
(***************************************************************************)
AggRecords ==
    [First_name : {Al, AJ}, Last_name : {Roe}, Team : Range(nfl_team_abbreviations),
     Position : {LB, QB}, Category : {DUI, DRUGS, ASSAULT, JAYWALKING}]

AggArrests == {arrest_of(r) : r \in AggRecords}

InitAgg ==
    /\ save_data = TRUE /\ offline = FALSE /\ refresh = FALSE
    /\ bad_boy_data = EmptyDict
    /\ raw_bad_boy_data = EmptyDict
    /\ unique_crime_categories_for_output = EmptyDict
    /\ files = NoFiles
    /\ pc = "aggregate"
    /\ err = "none"
    /\ arrests \in SeqsUpTo(AggArrests, MaxLen)
    /\ team_idx = 1 /\ page_num = 0 /\ num_pages = 0 /\ total_results = 0
    /\ gets = 1 /\ posts = Len(nfl_team_abbreviations)
    /\ runs = 1 /\ lookups = 0 /\ handed = 0
    /\ last = [op |-> "__init__", snapshot |-> Absent]

NextAgg ==
    \/ AddEntries
    \/ Save

SpecAgg == InitAgg /\ [][NextAgg]_vars

(***************************************************************************)
(* SpecLookup: the methods of a constructed object, add_entry and the      *)
(* lookup, called in any order.                                            *)
(***************************************************************************)
LookupFirstNames == {<<"a","l">>, AJ}
LookupLastNames == {<<"r","o","e">>}
LookupTeams == {<<"a","r","i">>, JAC, <<"z","z">>, None}
LookupPositions == {QB, DST}

HandedRecords(team_abbr) ==
    [First_name : {Al}, Last_name : {Roe}, Team : {team_abbr},
     Position : {LB, QB}, Category : {ASSAULT}]

HandedArrests(team_abbr) == {arrest_of(r) : r \in HandedRecords(team_abbr)}

\* add_entry called on the object
AddEntryCall(team_abbr, arrest_list, order) ==
    /\ pc = "ready"
    /\ arrest_list # <<>>
    /\ handed + Len(arrest_list) <= MaxHanded
    /\ handed' = handed + Len(arrest_list)
    /\ SetSelf(add_entry(Self, team_abbr, arrest_list, order))
    /\ last' = [op |-> "add_entry", team_abbr |-> team_abbr,
                arrests |-> arrest_list, pre |-> Self]
    /\ UNCHANGED <<flag_vars, files, pc, err, local_vars, net_vars, runs, lookups>>

\* an object whose run fetched no arrest
InitLookup ==
    /\ save_data = FALSE /\ offline = FALSE /\ refresh = FALSE
    /\ bad_boy_data = EmptyDict
    /\ raw_bad_boy_data = EmptyDict
    /\ unique_crime_categories_for_output = EmptyDict
    /\ files = NoFiles
    /\ pc = "ready"
    /\ err = "none"
    /\ arrests = <<>> /\ team_idx = 0 /\ page_num = 0 /\ num_pages = 0
    /\ total_results = 0
    /\ gets = 1 /\ posts = Len(nfl_team_abbreviations)
    /\ runs = 1 /\ lookups = 0 /\ handed = 0
    /\ last = [op |-> "save", snapshot |-> Absent]

NextLookup ==
    \/ \E i \in 1..Len(nfl_team_abbreviations) :
         \E arrest_list \in SeqsUpTo(HandedArrests(nfl_team_abbreviations[i]), MaxHanded) :
           \E order \in Perms(NamesOf(arrest_list)) :
             AddEntryCall(nfl_team_abbreviations[i], arrest_list, order)
    \/ \E f \in LookupFirstNames, l \in LookupLastNames, t \in LookupTeams,
          p \in LookupPositions : Lookup(f, l, t, p)

SpecLookup == InitLookup /\ [][NextLookup]_vars

(***************************************************************************)
(* SpecNames: add_entry over feed names of several casings, and lookups by *)
(* the first and last names of the feed.                                   *)
(***************************************************************************)
FeedFirstNames == {Al, AJ}
FeedLastNames == {Roe}

FeedRecords(team_abbr) ==
    [First_name : FeedFirstNames, Last_name : FeedLastNames, Team : {team_abbr},
     Position : {LB}, Category : {ASSAULT, JAYWALKING}]

FeedArrests(team_abbr) == {arrest_of(r) : r \in FeedRecords(team_abbr)}

NextNames ==
    \/ \E i \in 1..Len(nfl_team_abbreviations) :
         \E arrest_list \in SeqsUpTo(FeedArrests(nfl_team_abbreviations[i]), MaxHanded) :
           \E order \in Perms(NamesOf(arrest_list)) :
             AddEntryCall(nfl_team_abbreviations[i], arrest_list, order)
    \/ \E f \in FeedFirstNames, l \in FeedLastNames, p \in {QB, LB} :
          Lookup(f, l, nfl_team_abbreviations[1], p)

SpecNames == InitLookup /\ [][NextNames]_vars

(***************************************************************************)
(* Properties of add_entry.                                                *)
(***************************************************************************)
\* the scoring-table points of an arrest
PointsOf(arrest) == offense_points_of(Upper(arrest.crime))

\* the arrests of a list that carry a name
ArrestsOf(arrest_list, name) == SelectSeq(arrest_list, LAMBDA a : a.name = name)

RECURSIVE SumOfPoints(_)
SumOfPoints(arrest_list) ==
    IF arrest_list = <<>> THEN 0
    ELSE PointsOf(Head(arrest_list)) + SumOfPoints(Tail(arrest_list))

MaxOfPoints(arrest_list) ==
    IF arrest_list = <<>> THEN 0
    ELSE CHOOSE m \in {PointsOf(arrest_list[i]) : i \in 1..Len(arrest_list)} :
           \A i \in 1..Len(arrest_list) : PointsOf(arrest_list[i]) <= m

\* the state is the one an add_entry call over a non-empty list has left
AfterAddEntry == last.op = "add_entry" /\ last.arrests # <<>>

\* C1: after add_entry, each player's total_points is the sum of the points
\* of all arrests of the list that carry the player's name.
C1_TotalIsSum ==
    AfterAddEntry =>
        \A n \in NamesOf(last.arrests) :
            bad_boy_data[n].total_points = SumOfPoints(ArrestsOf(last.arrests, n))

\* C2: after add_entry, each player's worst_offense_points is the maximum of
\* the points of the player's arrests in the list, and worst_offense is the
\* category of an arrest that attains it, wherever that arrest stands.
C2_WorstIsMax ==
    AfterAddEntry =>
        \A n \in NamesOf(last.arrests) :
            LET mine == ArrestsOf(last.arrests, n)
                top == MaxOfPoints(mine)
            IN  /\ bad_boy_data[n].worst_offense_points = top
                /\ top > 0 =>
                     \E i \in 1..Len(mine) :
                        /\ PointsOf(mine[i]) = top
                        /\ bad_boy_data[n].worst_offense = Upper(mine[i].crime)

\* the lists that are permutations of a list
PermutationsOf(arrest_list) ==
    {[i \in 1..Len(arrest_list) |-> arrest_list[p[i]]] :
        p \in Perms(1..Len(arrest_list))}

\* two player entries agree on the aggregates
SamePlayerEntry(a, b) ==
    /\ a.offenses = b.offenses
    /\ a.total_points = b.total_points
    /\ a.worst_offense = b.worst_offense
    /\ a.worst_offense_points = b.worst_offense_points

\* two team entries agree, offenders compared as a set
SameTeamEntry(a, b) ==
    /\ a.total_points = b.total_points
    /\ Range(a.offenders) = Range(b.offenders)
    /\ a.num_offenders = b.num_offenders
    /\ a.worst_offense = b.worst_offense
    /\ a.worst_offense_points = b.worst_offense_points

\* C3: add_entry over any permutation of the list leaves the same player
\* entries and the same team entry (offenders as a set).
C3_OrderIndependent ==
    AfterAddEntry =>
        \A permuted \in PermutationsOf(last.arrests) :
            \A order \in Perms(NamesOf(last.arrests)) :
                LET other == add_entry(last.pre, last.team_abbr, permuted, order).bad_boy_data
                IN  /\ \A n \in NamesOf(last.arrests) :
                           SamePlayerEntry(other[n], bad_boy_data[n])
                    /\ SameTeamEntry(other[last.team_abbr], bad_boy_data[last.team_abbr])


\* the keys of the store that hold a team-defense entry
TeamKeys == {k \in DOMAIN bad_boy_data : "offenders" \in DOMAIN bad_boy_data[k]}

\* C6: every team-defense entry of the store has num_offenders equal to the
\* number of distinct names in offenders, and one more defensive arrest of a
\* player already in offenders leaves num_offenders as it is.
C6_NumOffenders ==
    \A k \in TeamKeys :
        LET nfl_team == bad_boy_data[k]
        IN  /\ nfl_team.num_offenders = Cardinality(Range(nfl_team.offenders))
            /\ \A a \in AggArrests :
                 (a.position_type = "D" /\ a.name \in Range(nfl_team.offenders)) =>
                    \A order \in Perms(Range(nfl_team.offenders)) :
                        add_entry_step([self |-> Self, nfl_team |-> nfl_team],
                                       k, a, order).nfl_team.num_offenders
                          = nfl_team.num_offenders

\* a team entry built from two defensive arrests of one player
C6_Witness ==
    /\ AfterAddEntry
    /\ \E i, j \in 1..Len(last.arrests) :
         /\ i < j
         /\ last.arrests[i].name = last.arrests[j].name
         /\ last.arrests[i].position_type = "D"
         /\ last.arrests[j].position_type = "D"
    /\ bad_boy_data[last.team_abbr].num_offenders = 1
    /\ bad_boy_data[last.team_abbr].total_points = 15


(***************************************************************************)
(* Properties of the lookup.                                               *)
(***************************************************************************)
AfterLookup == last.op = "lookup"

\* the key the last lookup used
LastKey == player_full_name_of(last.first, last.last_name, last.pos)

ZeroValued(entry) ==
    /\ DOMAIN entry = {"team", "pos", "offenses", "total_points",
                       "worst_offense", "worst_offense_points"}
    /\ entry.offenses = <<>>
    /\ entry.total_points = 0
    /\ entry.worst_offense = None
    /\ entry.worst_offense_points = 0

\* a lookup of an absent name returns a zero-valued entry and stores it
C4_MissStores ==
    (AfterLookup /\ ~last.hit) =>
        /\ ZeroValued(last.entry)
        /\ LastKey \in DOMAIN bad_boy_data
        /\ bad_boy_data[LastKey] = last.entry

\* the same lookup made again returns the same entry and changes nothing
C4_SecondLookup ==
    (AfterLookup /\ ~last.hit /\ last'.op = "lookup"
       /\ last'.first = last.first /\ last'.last_name = last.last_name
       /\ last'.team = last.team /\ last'.pos = last.pos) =>
        /\ last'.hit
        /\ last'.entry = last.entry
        /\ bad_boy_data' = bad_boy_data

\* no lookup and no add_entry removes a key
C4_KeysStay == (DOMAIN bad_boy_data) \subseteq (DOMAIN bad_boy_data')

\* C4: a lookup of an absent name returns a zero-valued entry and makes the
\* name a key; the same lookup again returns an equal entry and leaves the
\* store as the first left it; the key stays through every later lookup and
\* add_entry.
C4_LookupIdempotent ==
    /\ []C4_MissStores
    /\ [][C4_SecondLookup /\ C4_KeysStay]_vars

\* the second of two equal lookups has hit the entry the first synthesized
C4_Witness ==
    /\ AfterLookup
    /\ lookups = 2
    /\ last.hit
    /\ ZeroValued(last.entry)
    /\ last.entry.team = player_team_of(last.team)
    /\ last.entry.pos = last.pos
    /\ handed > 0


\* C7: a lookup with position "D/ST" resolves to the disabled sentinel key,
\* never to a team abbreviation: the entry returned is the sentinel's, has
\* total_points 0 and is no team-defense entry of the store.
C7_DefenseDisabled ==
    (AfterLookup /\ last.pos = DST) =>
        /\ DisabledKey \in DOMAIN bad_boy_data
        /\ last.entry = bad_boy_data[DisabledKey]
        /\ last.entry.total_points = 0
        /\ "players" \notin DOMAIN last.entry
        /\ \A k \in TeamKeys : last.entry # bad_boy_data[k]

\* a "D/ST" lookup for a team whose defense entry holds points
C7_Witness ==
    /\ AfterLookup
    /\ last.pos = DST
    /\ player_team_of(last.team) \in TeamKeys
    /\ bad_boy_data[player_team_of(last.team)].total_points > 0
    /\ last.entry.total_points = 0

\* C8: get_player_bad_boy_num_offenders returns the entry's num_offenders
\* for a team-defense entry and the integer 0 for every other entry, the
\* entry synthesized on a miss included, whatever the position argument.
C8_NumOffendersIsInt ==
    AfterLookup =>
        last.num_offenders =
            IF "offenders" \in DOMAIN last.entry
            THEN PyInt(last.entry.num_offenders)
            ELSE PyInt(0)


(***************************************************************************)
(* Properties of the snapshot and of the run modes.                        *)
(***************************************************************************)
\* the store a fresh object would load after a save made in this state
LoadedAfterSave ==
    open_bad_boy_data(EmptyDict, save_bad_boy_data(Self, save_data, files))

\* C5: with save_data enabled, save_bad_boy_data followed by
\* open_bad_boy_data gives back the store that was saved, key for key and
\* field for field; the file the run has written loads to the store.
C5_RoundTrip ==
    save_data =>
        /\ LoadedAfterSave = bad_boy_data
        /\ (pc = "ready" /\ last.op = "save") =>
              open_bad_boy_data(EmptyDict, files) = bad_boy_data

\* a saved store with a team entry of two offenders and an entry whose
\* worst offense is None
C5_Witness ==
    /\ save_data
    /\ pc = "ready" /\ last.op = "save"
    /\ files.bad_boy_data # Absent
    /\ \E k \in TeamKeys : bad_boy_data[k].num_offenders = 2
    /\ \E k \in DOMAIN bad_boy_data :
          /\ bad_boy_data[k].worst_offense = None
          /\ k \notin TeamKeys
          /\ bad_boy_data[k].offenses # <<>>
    /\ json_load(files.bad_boy_data) = bad_boy_data


\* the snapshot file is absent or holds an empty store
SnapshotEmpty(doc) == doc = Absent \/ json_load(doc) = EmptyDict

\* C9: an offline run (offline set, refresh not set) issues no network
\* request; its __init__ raises FileNotFoundError exactly when the snapshot
\* is absent or holds an empty store, and otherwise leaves the store equal to
\* the contents of the snapshot.
C9_OfflineMode ==
    (runs > 0 /\ offline /\ ~refresh) =>
        /\ gets = 0 /\ posts = 0
        /\ pc \in {"ready", "raised"}
        /\ pc = "raised" => err = "FileNotFoundError"
        /\ last.op = "__init__" =>
              /\ (pc = "raised") <=> SnapshotEmpty(last.snapshot)
              /\ pc = "ready" => bad_boy_data = json_load(last.snapshot)

\* an offline run that failed on a snapshot file that exists and holds {}
C9_Witness ==
    /\ runs > 0 /\ offline /\ ~refresh
    /\ last.op = "__init__" /\ last.snapshot # Absent
    /\ pc = "raised" /\ err = "FileNotFoundError"

\* an offline run that loaded a non-empty snapshot
C9_LoadedWitness ==
    /\ runs > 0 /\ offline /\ ~refresh
    /\ last.op = "__init__" /\ last.snapshot # Absent
    /\ pc = "ready" /\ bad_boy_data # EmptyDict
    /\ gets = 0 /\ posts = 0

\* C10 as stated: at the end of a refresh run the existing snapshot has been
\* overwritten with the newly scraped data.
C10_AlwaysOverwritten ==
    (refresh /\ pc = "ready" /\ last.op = "save" /\ last.snapshot # Absent) =>
        files.bad_boy_data = dump_bad_boy_data(bad_boy_data)

\* a refresh run has an empty store until its scrape is over, and has made
\* the GET and a POST per team when it is ready; its save leaves the
\* snapshot as the dump of the scraped store when save_data is set, and as
\* it was when save_data is not set
C10_RefreshState ==
    refresh =>
        /\ pc \in {"nonce", "page"} => bad_boy_data = EmptyDict
        /\ pc \in {"aggregate", "save", "ready"} =>
              gets = 1 /\ posts >= Len(nfl_team_abbreviations)
        /\ (pc = "ready" /\ last.op = "save") =>
              files = IF save_data
                      THEN [bad_boy_data |-> dump_bad_boy_data(bad_boy_data),
                            raw_bad_boy_data |->
                                dump_raw_bad_boy_data(raw_bad_boy_data)]
                      ELSE [files EXCEPT !.bad_boy_data = last.snapshot]

\* the __init__ of a refresh run starts the scrape with an empty store,
\* whatever the offline flag and the snapshot
C10_RefreshStep ==
    (runs' = runs + 1 /\ refresh') =>
        /\ pc' = "nonce"
        /\ bad_boy_data' = EmptyDict
        /\ files' = files

\* C10 (amended): in refresh mode __init__ always re-scrapes, whatever the
\* offline flag and the snapshot, and never loads the snapshot; at the end of
\* the run the snapshot has been overwritten with the newly scraped data when
\* save_data is enabled, and is left as it was when save_data is disabled.
C10_RefreshMode == []C10_RefreshState /\ [][C10_RefreshStep]_vars

\* a refresh run with the offline flag set that replaced a non-empty
\* snapshot by a different one
C10_Witness ==
    /\ refresh /\ offline /\ save_data
    /\ pc = "ready" /\ last.op = "save"
    /\ last.snapshot # Absent
    /\ json_load(last.snapshot) # EmptyDict
    /\ files.bad_boy_data # last.snapshot
    /\ bad_boy_data # EmptyDict

(***************************************************************************)
(* Properties of an online run, of the save and of a failed request.       *)
(***************************************************************************)
\* the run is neither a refresh run nor an offline run
OnlineRun == runs > 0 /\ ~refresh /\ ~offline

\* an online run makes at most one nonce GET and no POST before it; its
\* __init__ loads a non-empty snapshot and is ready without a request, and
\* goes to the scrape with an empty store otherwise; a ready object has
\* either loaded and requested nothing or scraped all the teams
C11_OnlineState ==
    OnlineRun =>
        /\ gets <= 1
        /\ gets = 0 => posts = 0
        /\ (last.op = "__init__" /\ gets = 0) =>
              IF SnapshotEmpty(last.snapshot)
              THEN pc = "nonce" /\ bad_boy_data = EmptyDict
              ELSE pc = "ready" /\ bad_boy_data = json_load(last.snapshot)
        /\ pc \in {"page", "aggregate", "save"} => gets = 1
        /\ pc = "ready" =>
              \/ gets = 0 /\ posts = 0
              \/ gets = 1 /\ posts >= Len(nfl_team_abbreviations)
        /\ (pc = "ready" /\ last.op = "save") =>
              gets = 1 /\ SnapshotEmpty(last.snapshot)

\* a request of an online run is made only when the load has left the store
\* empty, and the nonce GET is made only once
C11_OnlineStep ==
    (OnlineRun /\ runs' = runs /\ (gets' # gets \/ posts' # posts)) =>
        /\ SnapshotEmpty(files.bad_boy_data)
        /\ bad_boy_data = EmptyDict
        /\ gets' # gets => gets = 0 /\ gets' = 1

\* C11: a run that is neither refresh nor offline fills the store from
\* exactly one source: a non-empty snapshot is loaded and no request is made;
\* the scrape happens exactly when the store is empty after the load, and
\* then once.
C11_PopulatedOnce == []C11_OnlineState /\ [][C11_OnlineStep]_vars

\* an online run on a non-empty snapshot: loaded, nothing requested
C11_Witness ==
    /\ OnlineRun
    /\ pc = "ready" /\ last.op = "__init__"
    /\ ~SnapshotEmpty(last.snapshot)
    /\ bad_boy_data # EmptyDict
    /\ gets = 0 /\ posts = 0

\* an online run on a snapshot that holds {}: scraped once
C11_ScrapedWitness ==
    /\ OnlineRun
    /\ pc = "ready" /\ last.op = "save"
    /\ last.snapshot # Absent
    /\ bad_boy_data # EmptyDict
    /\ gets = 1

\* the two files as save_bad_boy_data writes them
Written ==
    [bad_boy_data |-> dump_bad_boy_data(bad_boy_data),
     raw_bad_boy_data |-> dump_raw_bad_boy_data(raw_bad_boy_data)]

\* the files change in the save of a run with save_data only; the save of
\* such a run writes both files
C12_SaveStep ==
    /\ files' # files => (pc = "save" /\ save_data /\ files' = Written)
    /\ (pc = "save" /\ pc' = "ready") =>
          files' = IF save_data THEN Written ELSE files

\* with save_data disabled the files of a run stay as __init__ found them
C12_SaveState ==
    (runs > 0 /\ ~save_data /\ last.op \in {"__init__", "save", "raise"}) =>
        files.bad_boy_data = last.snapshot

\* C12: save_bad_boy_data writes the store file and the raw-record file only
\* when save_data is enabled; with save_data disabled no step of __init__ and
\* no later operation changes either file.
C12_SaveOnlyWhenFlag == []C12_SaveState /\ [][C12_SaveStep]_vars

\* a run without save_data has scraped a store that differs from the
\* snapshot, and the snapshot is as it was
C12_Witness ==
    /\ runs > 0 /\ ~save_data
    /\ pc = "ready" /\ last.op = "save"
    /\ last.snapshot # Absent
    /\ files.bad_boy_data = last.snapshot
    /\ dump_bad_boy_data(bad_boy_data) # files.bad_boy_data
    /\ bad_boy_data # EmptyDict

\* a failed request ends the run: nothing is aggregated and no file is written
C13_FailedState ==
    err = "RequestException" =>
        /\ pc = "raised"
        /\ last.op = "raise"
        /\ raw_bad_boy_data = EmptyDict
        /\ unique_crime_categories_for_output = EmptyDict
        /\ bad_boy_data = EmptyDict
        /\ files.bad_boy_data = last.snapshot

\* the failing request is the last request of the run: it is counted once,
\* it writes nothing, and only a new object follows
C13_FailedStep ==
    /\ (err' = "RequestException" /\ err # "RequestException") =>
          /\ gets' + posts' = gets + posts + 1
          /\ files' = files
          /\ bad_boy_data' = EmptyDict
    /\ err = "RequestException" =>
          /\ runs' = runs + 1
          /\ files' = files

\* C13: a failed HTTP request (the nonce GET or a page POST) ends __init__
\* with that error: no request is made again, no arrest fetched before the
\* failure is aggregated (the store holds no entry) and no file is written.
C13_RequestFailureAborts == []C13_FailedState /\ [][C13_FailedStep]_vars

\* a page POST has failed after an arrest had been fetched
C13_Witness ==
    /\ pc = "raised" /\ err = "RequestException"
    /\ last.op = "raise" /\ last.fetched > 0
    /\ posts >= 2
    /\ bad_boy_data = EmptyDict
    /\ save_data


(***************************************************************************)
(* Properties of the team a lookup resolves.                               *)
(***************************************************************************)
\* the team codes of the alias table, in upper and in lower case
AliasCodes == (DOMAIN nfl_team_abbreviation_conversions) \cup {<<"j","a","c">>}

\* the canonical abbreviation an alias code maps to
CanonicalOf(code) == nfl_team_abbreviation_conversions[Upper(code)]

\* C14: the entry a lookup synthesizes on a miss carries the canonical
\* abbreviation: for a team code of the alias table the team value is the one
\* the table maps it to, and on every store the lookup gives the same store
\* and the same entry as the lookup made with that canonical abbreviation.
C14_AliasResolves ==
    /\ (AfterLookup /\ ~last.hit /\ last.team \in AliasCodes) =>
          /\ last.entry.team = CanonicalOf(last.team)
          /\ last.entry.team \in Range(nfl_team_abbreviations)
          /\ bad_boy_data[LastKey].team = CanonicalOf(last.team)
    /\ pc = "ready" =>
          \A code \in AliasCodes, f \in LookupFirstNames, l \in LookupLastNames,
             p \in LookupPositions :
               get_player_bad_boy_stats(bad_boy_data, f, l, code, p)
                 = get_player_bad_boy_stats(bad_boy_data, f, l, CanonicalOf(code), p)

\* a miss with the alias code JAC has stored an entry of team JAX
C14_Witness ==
    /\ AfterLookup /\ ~last.hit
    /\ last.team = JAC
    /\ last.entry.team = JAX
    /\ last.pos # DST
    /\ bad_boy_data[LastKey].team = JAX

\* the team argument is a code that is no abbreviation and no alias
UnknownCode(code) ==
    /\ Truthy(code)
    /\ Upper(code) \notin Range(nfl_team_abbreviations)
    /\ Upper(code) \notin DOMAIN nfl_team_abbreviation_conversions

\* C15: the team a lookup resolves is "?" whenever the team argument is
\* absent (None or empty) and whenever it is an unknown code.
C15_UnknownTeamFallback ==
    (AfterLookup /\ ~last.hit /\ (~Truthy(last.team) \/ UnknownCode(last.team))) =>
        last.entry.team = Unknown

\* the part of C15 about an absent team argument
C15_AbsentTeamFallback ==
    (AfterLookup /\ ~last.hit /\ ~Truthy(last.team)) => last.entry.team = Unknown


(***************************************************************************)
(* The invariant of the stored player entries.                             *)
(***************************************************************************)
\* the point value of an element {category: points} of an offenses list
OffensePoints(offense) == offense[CHOOSE c \in DOMAIN offense : TRUE]

RECURSIVE SumOfOffenses(_)
SumOfOffenses(offenses) ==
    IF offenses = <<>> THEN 0
    ELSE OffensePoints(Head(offenses)) + SumOfOffenses(Tail(offenses))

MaxOfOffenses(offenses) ==
    IF offenses = <<>> THEN 0
    ELSE CHOOSE m \in {OffensePoints(offenses[i]) : i \in 1..Len(offenses)} :
           \A i \in 1..Len(offenses) : OffensePoints(offenses[i]) <= m

\* the player entries of the store: its entries that are no team-defense
\* entry, and the entries the team-defense entries hold in players
PlayerEntries ==
    {bad_boy_data[k] : k \in (DOMAIN bad_boy_data) \ TeamKeys}
      \cup UNION {{bad_boy_data[k].players[n] : n \in DOMAIN bad_boy_data[k].players} :
                    k \in TeamKeys}

\* C16: in every store add_entry calls and lookups can leave, every player
\* entry's total_points is the sum of the point values of its own offenses
\* list and its worst_offense_points is the maximum of them, 0 for an empty
\* list.
C16_EntryInvariant ==
    \A e \in PlayerEntries :
        /\ e.total_points = SumOfOffenses(e.offenses)
        /\ e.worst_offense_points = MaxOfOffenses(e.offenses)

\* a store with a scored player entry, a zero-valued entry a lookup has
\* synthesized and a team-defense entry that holds a player
C16_Witness ==
    /\ \E e \in PlayerEntries : e.offenses # <<>> /\ e.total_points = 10
    /\ \E e \in PlayerEntries : e.offenses = <<>> /\ e.total_points = 0
    /\ \E k \in TeamKeys : DOMAIN bad_boy_data[k].players # {}
    /\ lookups > 0 /\ handed > 0


(***************************************************************************)
(* Properties of the team-defense entry add_entry builds.                  *)
(***************************************************************************)
\* the arrests of a list whose position type is defensive
DefensiveOf(arrest_list) == SelectSeq(arrest_list, LAMBDA a : a.position_type = "D")

\* the team-defense entry the last add_entry call has stored
LastTeam == bad_boy_data[last.team_abbr]

\* the team-defense entry the loop builds over a list
TeamOver(arrest_list, order) ==
    add_entry_loop([self |-> last.pre, nfl_team |-> new_nfl_team],
                   last.team_abbr, arrest_list, order).nfl_team

\* two team-defense entries agree on every field, offenders taken as a set
SameTeamFields(a, b) ==
    /\ SameTeamEntry(a, b)
    /\ a.pos = b.pos
    /\ a.players = b.players

\* C17: after add_entry the team entry's total_points is the sum of the
\* points of the defensive arrests of the list, its players and offenders
\* hold the names of those arrests only, and the entry is the one the
\* defensive arrests alone would give: an arrest of another position type
\* changes no field of it.
C17_DefensiveOnly ==
    AfterAddEntry =>
        LET defensive == DefensiveOf(last.arrests)
        IN  /\ LastTeam.total_points = SumOfPoints(defensive)
            /\ DOMAIN LastTeam.players = NamesOf(defensive)
            /\ Range(LastTeam.offenders) = NamesOf(defensive)
            /\ \E order \in Perms(NamesOf(defensive)) :
                  SameTeamFields(LastTeam, TeamOver(defensive, order))
            /\ \A a \in AggArrests : \A order \in Perms(NamesOf(defensive)) :
                  a.position_type # "D" =>
                     add_entry_step([self |-> Self, nfl_team |-> LastTeam],
                                    last.team_abbr, a, order).nfl_team = LastTeam

\* a list with a scored defensive arrest of one player and a scored arrest
\* of another position type of another player
C17_Witness ==
    /\ AfterAddEntry
    /\ Len(last.arrests) = 2
    /\ \E i, j \in 1..2 :
         /\ last.arrests[i].position_type = "D"
         /\ last.arrests[j].position_type # "D"
         /\ last.arrests[i].name # last.arrests[j].name
         /\ PointsOf(last.arrests[i]) = 5
         /\ PointsOf(last.arrests[j]) = 10
         /\ last.arrests[j].name \in DOMAIN bad_boy_data
         /\ DOMAIN LastTeam.players = {last.arrests[i].name}
    /\ LastTeam.total_points = 5


\* the place of the first arrest of a non-empty list that attains the
\* maximum of the points
FirstWorst(arrest_list) ==
    CHOOSE i \in 1..Len(arrest_list) :
        /\ PointsOf(arrest_list[i]) = MaxOfPoints(arrest_list)
        /\ \A j \in 1..(i - 1) : PointsOf(arrest_list[j]) < MaxOfPoints(arrest_list)

\* C18: after add_entry the team entry's worst_offense_points is the maximum
\* of the points of the defensive arrests of the list, 0 if there is none,
\* and worst_offense is the category of the first defensive arrest in list
\* order that attains it, None when the maximum is 0.
C18_TeamWorst ==
    AfterAddEntry =>
        LET defensive == DefensiveOf(last.arrests)
            top == MaxOfPoints(defensive)
        IN  /\ LastTeam.worst_offense_points = top
            /\ LastTeam.worst_offense =
                 IF top = 0 THEN None
                 ELSE Upper(defensive[FirstWorst(defensive)].crime)

\* two defensive arrests of equal points and different categories
C18_Witness ==
    /\ AfterAddEntry
    /\ Len(last.arrests) = 2
    /\ last.arrests[1].position_type = "D"
    /\ last.arrests[2].position_type = "D"
    /\ PointsOf(last.arrests[1]) = 5
    /\ PointsOf(last.arrests[2]) = 5
    /\ last.arrests[1].crime # last.arrests[2].crime
    /\ LastTeam.worst_offense = Upper(last.arrests[1].crime)
    /\ LastTeam.worst_offense_points = 5

\* C19: add_entry over any permutation of the list leaves a team entry with
\* the same total_points, the same num_offenders and the same
\* worst_offense_points.
C19_TeamAggregatesCommute ==
    AfterAddEntry =>
        \A permuted \in PermutationsOf(last.arrests) :
            \A order \in Perms(NamesOf(last.arrests)) :
                LET other == add_entry(last.pre, last.team_abbr, permuted,
                                       order).bad_boy_data[last.team_abbr]
                IN  /\ other.total_points = LastTeam.total_points
                    /\ other.num_offenders = LastTeam.num_offenders
                    /\ other.worst_offense_points = LastTeam.worst_offense_points

\* two defensive arrests of different points and of different players
C19_Witness ==
    /\ AfterAddEntry
    /\ Len(last.arrests) = 2
    /\ last.arrests[1].position_type = "D"
    /\ last.arrests[2].position_type = "D"
    /\ last.arrests[1].name # last.arrests[2].name
    /\ PointsOf(last.arrests[1]) = 10
    /\ PointsOf(last.arrests[2]) = 5
    /\ LastTeam.total_points = 15
    /\ LastTeam.num_offenders = 2
    /\ LastTeam.worst_offense_points = 10


(***************************************************************************)
(* The frame of the lookup.                                                *)
(***************************************************************************)
\* the step is a get_player_bad_boy_stats call
LookupStep == lookups' = lookups + 1

\* what a lookup step changes: nothing on a hit; on a miss one key, the
\* name looked up, with a zero-valued entry that records the team and the
\* position; never the raw records, the export table or the files
C20_Frame ==
    LookupStep =>
        LET key == player_full_name_of(last'.first, last'.last_name, last'.pos)
        IN  /\ raw_bad_boy_data' = raw_bad_boy_data
            /\ unique_crime_categories_for_output'
                 = unique_crime_categories_for_output
            /\ files' = files
            /\ IF key \in DOMAIN bad_boy_data
               THEN bad_boy_data' = bad_boy_data
               ELSE /\ DOMAIN bad_boy_data' = (DOMAIN bad_boy_data) \cup {key}
                    /\ \A k \in DOMAIN bad_boy_data :
                          bad_boy_data'[k] = bad_boy_data[k]
                    /\ bad_boy_data'[key] =
                          [team |-> player_team_of(last'.team), pos |-> last'.pos,
                           offenses |-> <<>>, total_points |-> 0,
                           worst_offense |-> None, worst_offense_points |-> 0]

\* C20: a get_player_bad_boy_stats call that hits a key leaves the whole
\* store as it was, the stored team and position included; a call that misses
\* adds exactly one key, the canonical name, with the team and the position
\* recorded, an empty offenses list and all point fields zero, and changes no
\* other entry, nor the raw-record map, the export table or the files.
C20_LookupFrame == [][C20_Frame]_vars

\* a hit on a scored entry whose stored team and position differ from the
\* arguments of the call
C20_Witness ==
    /\ AfterLookup /\ last.hit
    /\ last.entry.total_points > 0
    /\ last.entry.pos # last.pos
    /\ last.entry.team # player_team_of(last.team)
    /\ bad_boy_data[LastKey] = last.entry

\* a miss has added the one key of the call
C20_MissWitness ==
    /\ AfterLookup /\ ~last.hit
    /\ handed > 0
    /\ Cardinality(DOMAIN bad_boy_data) >= 3
    /\ last.entry.team = player_team_of(last.team)


(***************************************************************************)
(* Properties of the scrape.                                               *)
(***************************************************************************)
\* max(1, ceil(total / 20))
PagesFor(total) ==
    IF (total + PageSize - 1) \div PageSize > 1
    THEN (total + PageSize - 1) \div PageSize ELSE 1

\* the step is a page POST that was answered
AnsweredPost == posts' = posts + 1 /\ pc' # "raised"

\* the POST for page page_num of a team is followed by the POST for the
\* next page of the team while 20 * pages fetched is below the total page 1
\* reported, and by the next team (or the aggregation) otherwise, when the
\* pages fetched are max(1, ceil(total / 20))
C21_PageStep ==
    AnsweredPost =>
        /\ pc = "page"
        /\ page_num > 1 => total_results' = total_results
        /\ IF PageSize * page_num >= total_results'
           THEN /\ page_num = PagesFor(total_results')
                /\ IF team_idx < Len(nfl_team_abbreviations)
                   THEN pc' = "page" /\ team_idx' = team_idx + 1 /\ page_num' = 1
                   ELSE pc' = "aggregate"
           ELSE /\ pc' = "page"
                /\ team_idx' = team_idx
                /\ page_num' = page_num + 1

\* the pages still to request for the team never go below zero: the page to
\* request next is at most the last page of the team
C21_PageState ==
    pc = "page" =>
        /\ page_num >= 1
        /\ page_num > 1 =>
              /\ PageSize * (page_num - 1) < total_results
              /\ page_num <= PagesFor(total_results)

\* C21: for each team the pages 1, 2, ... are requested in increasing order
\* and the requests stop exactly when 20 * pages fetched >= total_results of
\* page 1, that is after max(1, ceil(total_results / 20)) POSTs; the page to
\* request is bounded by that number, so the loop ends.
C21_Pagination == []C21_PageState /\ [][C21_PageStep]_vars

\* the last team reported 41 results and was fetched in three POSTs, after
\* one POST for the team before it
C21_Witness ==
    /\ pc = "aggregate"
    /\ total_results = 2 * PageSize + 1
    /\ posts = 4
    /\ gets = 1


(***************************************************************************)
(* Properties of an arrest whose category the scoring table does not hold. *)
(***************************************************************************)
\* the loop of the last add_entry call after its first k arrests
AccAfter(k, order) ==
    add_entry_loop([self |-> last.pre, nfl_team |-> new_nfl_team],
                   last.team_abbr, SubSeq(last.arrests, 1, k), order)

\* a field of the player's entry, or the value of a player not yet stored
FieldOr(store, name, field, default) ==
    IF name \in DOMAIN store THEN store[name][field] ELSE default

\* the export table holds every category of the list with its table score,
\* 0 for a category the table does not hold
C22_Exported ==
    AfterAddEntry =>
        \A i \in 1..Len(last.arrests) :
            LET cat == Upper(last.arrests[i].crime)
            IN  /\ cat \in DOMAIN unique_crime_categories_for_output
                /\ unique_crime_categories_for_output[cat] =
                     IF cat \in DOMAIN crime_rankings THEN crime_rankings[cat] ELSE 0

\* the iteration over an arrest of a category the table does not hold
\* appends {category: 0} to the player's offenses and leaves the player's
\* and the team's total_points and worst_offense as they were
C22_ZeroScored ==
    AfterAddEntry =>
        \A i \in 1..Len(last.arrests) : \A order \in Perms(NamesOf(last.arrests)) :
            LET arrest == last.arrests[i]
                cat == Upper(arrest.crime)
                before == AccAfter(i - 1, order)
                after == AccAfter(i, order)
                was == before.self.bad_boy_data
                now == after.self.bad_boy_data[arrest.name]
            IN  cat \notin DOMAIN crime_rankings =>
                  /\ now.offenses =
                       Append(FieldOr(was, arrest.name, "offenses", <<>>),
                              [c \in {cat} |-> 0])
                  /\ now.total_points = FieldOr(was, arrest.name, "total_points", 0)
                  /\ now.worst_offense =
                       FieldOr(was, arrest.name, "worst_offense", None)
                  /\ after.nfl_team.total_points = before.nfl_team.total_points
                  /\ after.nfl_team.worst_offense = before.nfl_team.worst_offense

\* C22: an arrest of a category absent from the scoring table is recorded as
\* {category: 0}, adds 0 to the totals and leaves worst_offense as it was,
\* and the export table gains the category with score 0; a category of the
\* table is exported with its table score.
C22_UnknownCategory == C22_Exported /\ C22_ZeroScored


\* every arrest fetched has a position of the position-type table and the
\* type the table gives it; a KeyError has ended the run with nothing
\* aggregated and no file written
C23_KeyErrorState ==
    /\ \A i \in 1..Len(arrests) :
          /\ arrests[i].position \in DOMAIN position_types
          /\ arrests[i].position_type = position_types[arrests[i].position]
    /\ err = "KeyError" =>
          /\ pc = "raised"
          /\ last.op = "raise"
          /\ bad_boy_data = EmptyDict
          /\ raw_bad_boy_data = EmptyDict
          /\ unique_crime_categories_for_output = EmptyDict
          /\ files.bad_boy_data = last.snapshot

\* the KeyError comes from the normalisation of a page, before the
\* aggregation, and writes nothing; only a new object follows
C23_KeyErrorStep ==
    /\ (err' = "KeyError" /\ err # "KeyError") =>
          /\ pc = "page"
          /\ posts' = posts + 1
          /\ bad_boy_data = EmptyDict /\ bad_boy_data' = EmptyDict
          /\ files' = files
    /\ err = "KeyError" => (runs' = runs + 1 /\ files' = files)

\* C23: a scraped record whose position is not in the position-type table
\* makes __init__ fail with a KeyError during the normalisation, before any
\* add_entry call: the store stays empty and no file is written; the record
\* is neither skipped nor scored.
C23_UnknownPositionFails == []C23_KeyErrorState /\ [][C23_KeyErrorStep]_vars

\* a KeyError after an arrest had been fetched, in a run that would save
C23_Witness ==
    /\ pc = "raised" /\ err = "KeyError"
    /\ last.op = "raise" /\ last.fetched > 0
    /\ save_data
    /\ bad_boy_data = EmptyDict


\* the run has scraped and no arrest was aggregated
ScrapedNothing == pc = "ready" /\ gets = 1 /\ raw_bad_boy_data = EmptyDict

\* a scrape that fetched no arrest leaves the store empty through the
\* aggregation and raises nothing; the object it leaves holds zero-valued
\* entries only, those its lookups have synthesized
C24_EmptyState ==
    /\ (pc \in {"aggregate", "save"} /\ arrests = <<>>) =>
          /\ bad_boy_data = EmptyDict
          /\ raw_bad_boy_data = EmptyDict
          /\ err = "none"
    /\ ScrapedNothing =>
          /\ err = "none"
          /\ lookups = 0 => bad_boy_data = EmptyDict
          /\ \A k \in DOMAIN bad_boy_data : ZeroValued(bad_boy_data[k])
          /\ AfterLookup => ZeroValued(last.entry)

\* the end of a scrape that fetched no arrest is a ready object with an
\* empty store
C24_EmptyStep ==
    (pc = "save" /\ arrests = <<>> /\ pc' # pc) =>
        /\ pc' = "ready"
        /\ err' = "none"
        /\ bad_boy_data' = EmptyDict
        /\ raw_bad_boy_data' = EmptyDict

\* C24: an online or refresh scrape that ends with no arrest record for any
\* team does not raise: __init__ finishes with an empty store, and every
\* later lookup returns a zero-valued entry.
C24_ZeroRecords == []C24_EmptyState /\ [][C24_EmptyStep]_vars

\* a lookup on the object a scrape without arrests has left
C24_Witness ==
    /\ ScrapedNothing
    /\ posts >= Len(nfl_team_abbreviations)
    /\ AfterLookup /\ ~last.hit
    /\ ZeroValued(last.entry)
    /\ DOMAIN bad_boy_data = {LastKey}


(***************************************************************************)
(* The key add_entry writes and the key the lookup builds.                 *)
(***************************************************************************)
\* the name the feed gives the player of the last lookup: "First Last"
LastFeedName == last.first \o <<" ">> \o last.last_name

\* C25: a player entry add_entry has stored under the feed's "First Last"
\* name is the entry a lookup by that first and last name and a position
\* other than D/ST returns, whatever the casing of the name.
C25_WrittenKeyIsLookupKey ==
    (AfterLookup /\ last.pos # DST /\ LastFeedName \in DOMAIN raw_bad_boy_data) =>
        /\ LastKey = LastFeedName
        /\ last.hit
        /\ last.entry = bad_boy_data[LastFeedName]

\* the part of C25 about a name that is written as capwords writes it
C25_CapwordsNames ==
    (AfterLookup /\ last.pos # DST /\ LastFeedName \in DOMAIN raw_bad_boy_data
       /\ Capwords(last.first) = last.first
       /\ Capwords(last.last_name) = last.last_name) =>
        /\ last.hit
        /\ last.entry = bad_boy_data[LastFeedName]


(***************************************************************************)
(* An offline run after a run that saved.                                  *)
(***************************************************************************)
\* the object is that of an online or refresh run with save_data that has
\* completed without error
CompletedSaving ==
    /\ runs > 0 /\ pc = "ready" /\ err = "none"
    /\ save_data
    /\ refresh \/ ~offline

\* the step constructs an offline object on the directory of such a run
OfflineNext == CompletedSaving /\ runs' = runs + 1 /\ offline' /\ ~refresh'

\* C26 as stated: the offline run never raises the missing-offline-data error
\* and loads the store the first run saved.
C26_OfflineNeverRaises ==
    [][OfflineNext =>
          /\ pc' = "ready"
          /\ bad_boy_data' = json_load(files.bad_boy_data)]_vars

\* a completed run with save_data leaves a snapshot file; right after its
\* save the file holds its store
C26_SavedState ==
    CompletedSaving =>
        /\ files.bad_boy_data # Absent
        /\ last.op = "save" => json_load(files.bad_boy_data) = bad_boy_data

\* the offline run loads the saved store when it is not empty, and raises
\* FileNotFoundError when it is
C26_OfflineStep ==
    OfflineNext =>
        IF json_load(files.bad_boy_data) = EmptyDict
        THEN pc' = "raised" /\ err' = "FileNotFoundError"
        ELSE /\ pc' = "ready" /\ err' = "none"
             /\ bad_boy_data' = json_load(files.bad_boy_data)
             /\ (last.op = "save" => bad_boy_data' = bad_boy_data)
             /\ gets' = 0 /\ posts' = 0

\* C26 (amended): after an online or refresh run with save_data has
\* completed without error, an offline run started next on the same data
\* directory loads a store equal to the one saved and does not raise,
\* provided the saved store is not empty; when the first run fetched no
\* arrest the saved store is empty and the offline run raises
\* FileNotFoundError.
C26_OfflineAfterSave == []C26_SavedState /\ [][C26_OfflineStep]_vars

\* the second run is an offline run that has loaded what the first run saved
C26_Witness ==
    /\ runs = 2 /\ offline /\ ~refresh
    /\ pc = "ready" /\ last.op = "__init__"
    /\ bad_boy_data = json_load(last.snapshot)
    /\ TeamKeys # {}
    /\ files.raw_bad_boy_data # Absent
    /\ gets = 0 /\ posts = 0


(***************************************************************************)
(* The players a team-defense entry holds, after the aggregation.          *)
(***************************************************************************)
\* the aggregation of the run is over
Aggregated == pc \in {"save", "ready"} /\ gets = 1

\* C27: once add_entry has been called for every team, each entry a
\* team-defense entry holds in players equals the store's own entry of that
\* name.
C27_PlayersAreStoreEntries ==
    Aggregated =>
        \A k \in TeamKeys : \A n \in DOMAIN bad_boy_data[k].players :
            /\ n \in DOMAIN bad_boy_data
            /\ bad_boy_data[k].players[n] = bad_boy_data[n]

\* the part of C27 that holds: a name in players is a key of the store
C27_PlayersAreStored ==
    Aggregated =>
        \A k \in TeamKeys : \A n \in DOMAIN bad_boy_data[k].players :
            n \in DOMAIN bad_boy_data


(***************************************************************************)
(* The order of the events of one __init__.                                *)
(***************************************************************************)
\* the step belongs to the run of the current object
InRun == runs' = runs

\* the nonce GET is the first request and is made once; a POST comes after
\* it, one request a step; the aggregation starts after the last page of the
\* last team, calls add_entry for the teams in order and makes no request;
\* the save follows the last add_entry; a ready object requests and saves
\* nothing more
C28_OrderStep ==
    /\ (InRun /\ gets' # gets) =>
          /\ pc = "nonce" /\ gets = 0 /\ gets' = 1
          /\ posts = 0 /\ posts' = 0
    /\ (InRun /\ posts' # posts) =>
          /\ pc = "page" /\ gets = 1 /\ gets' = 1
          /\ posts' = posts + 1
    /\ (pc # "aggregate" /\ pc' = "aggregate") =>
          /\ pc = "page"
          /\ team_idx = Len(nfl_team_abbreviations)
          /\ PageSize * page_num >= total_results'
          /\ team_idx' = 1
          /\ bad_boy_data' = EmptyDict
    /\ pc = "aggregate" =>
          /\ gets' = gets /\ posts' = posts /\ files' = files
          /\ last'.op = "add_entry"
          /\ last'.team_abbr = nfl_team_abbreviations[team_idx]
          /\ IF team_idx < Len(nfl_team_abbreviations)
             THEN pc' = "aggregate" /\ team_idx' = team_idx + 1
             ELSE pc' = "save"
    /\ pc = "save" =>
          /\ pc' = "ready"
          /\ last'.op = "save"
          /\ gets' = gets /\ posts' = posts
          /\ bad_boy_data' = bad_boy_data
    /\ (pc = "ready" /\ InRun) =>
          /\ pc' = "ready"
          /\ gets' = gets /\ posts' = posts /\ files' = files

\* the aggregation and the save belong to runs that have scraped
C28_OrderState ==
    /\ pc \in {"page", "aggregate", "save"} => gets = 1
    /\ pc \in {"aggregate", "save"} => posts >= Len(nfl_team_abbreviations)
    /\ (runs > 0 /\ gets = 0) => (posts = 0 /\ pc \in {"nonce", "ready", "raised"})
    /\ (runs > 0 /\ last.op \in {"add_entry", "save"}) => gets = 1

\* C28: within one __init__ the nonce GET precedes every page POST, the
\* requests are made one at a time, every page of every team is fetched
\* before the first add_entry call, and save_bad_boy_data is called once,
\* after the last add_entry, and only in a run that has scraped.
C28_EventOrder == []C28_OrderState /\ [][C28_OrderStep]_vars

\* a run that has made the GET, four POSTs, the add_entry calls and the save
C28_Witness ==
    /\ pc = "ready" /\ last.op = "save"
    /\ gets = 1 /\ posts = 4
    /\ Cardinality(TeamKeys) = 2


(***************************************************************************)
(* Invariants of the entries of the store.                                 *)
(***************************************************************************)
\* every entry: the store's, and those the team-defense entries hold
AllEntries == {bad_boy_data[k] : k \in DOMAIN bad_boy_data} \cup PlayerEntries

\* C29: every entry of a reachable store (player, team-defense or
\* synthesized by a lookup) has worst_offense None exactly when
\* worst_offense_points is 0, and a worst_offense that is not None is a
\* category the scoring table maps to worst_offense_points.
C29_WorstOffenseNone ==
    \A e \in AllEntries :
        /\ (e.worst_offense = None) <=> (e.worst_offense_points = 0)
        /\ e.worst_offense # None =>
              /\ e.worst_offense \in DOMAIN crime_rankings
              /\ crime_rankings[e.worst_offense] = e.worst_offense_points

\* a store with a scored team-defense entry, a player entry whose only
\* offense scores 0 and an entry a lookup has synthesized
C29_Witness ==
    /\ \E k \in TeamKeys : bad_boy_data[k].worst_offense = ASSAULT
    /\ \E e \in PlayerEntries :
          e.offenses # <<>> /\ e.total_points = 0 /\ e.worst_offense = None
    /\ \E e \in PlayerEntries : e.offenses = <<>>
    /\ lookups > 0

\* C30: in every team-defense entry add_entry has written, offenders holds
\* no name twice and its names are the keys of players.
C30_OffendersArePlayers ==
    \A k \in TeamKeys :
        /\ Cardinality(Range(bad_boy_data[k].offenders))
             = Len(bad_boy_data[k].offenders)
        /\ Range(bad_boy_data[k].offenders) = DOMAIN bad_boy_data[k].players

\* a team-defense entry built from two defensive arrests of one player
C30_Witness ==
    /\ AfterAddEntry
    /\ \E i, j \in 1..Len(last.arrests) :
          /\ i # j
          /\ last.arrests[i].name = last.arrests[j].name
          /\ last.arrests[i].position_type = "D"
          /\ last.arrests[j].position_type = "D"
    /\ Len(LastTeam.offenders) = 1
    /\ DOMAIN LastTeam.players = Range(LastTeam.offenders)


=============================================================================
